---- MODULE Spec2Model ----
(***************************************************************************)
(* A model of main.py, the CIFAR-10 training script: the run loop over two *)
(* seeds, the per-run set-up (logs, data, model, optimizer, scheduler),    *)
(* the epoch loop, train(), test() and the statistics that are written.    *)
(*                                                                         *)
(* The network, the criterion and the data are external: the loss and the  *)
(* number of correct predictions of every batch are inputs, drawn in Init  *)
(* (the data set and the seeded random streams are fixed before the run).  *)
(* The loss of a batch drifts with the epoch and the seed (CriterionValue), *)
(* so that the records of different epochs and runs can be told apart.     *)
(* Floating-point quotients are kept as exact fractions <<num, den>>.      *)
(* The SGDO optimizer (module sgd_overshoot) is not among the sources; it  *)
(* is modelled from the specification's section 4.1.                       *)
(***************************************************************************)
EXTENDS Integers, Sequences, FiniteSets, TLC

\* ------------------------------------------------------------------ bounds

\* The number of epochs of a run (200 in main.py) is scaled down to MaxEpochs.
MaxEpochs == 2
\* The batch size of the training loader (128 in main.py), scaled down.
MaxBatchSize == 2
\* The largest training set (in samples) that Init draws.
MaxTrainData == 3
\* The largest test set (in samples) that Init draws.
MaxTestData == 2

\* ------------------------------------------------------- program constants

\* main.py line 91
n_runs == 2

\* main.py line 176 (scaled: see MaxEpochs)
epochs == MaxEpochs

\* main.py line 118: batch_size=128 of the training loader (scaled)
train_batch_size == MaxBatchSize

\* main.py line 123: batch_size=100 of the test loader: smaller than the
\* training loader's, as in the source
test_batch_size == IF MaxBatchSize > 1 THEN MaxBatchSize - 1 ELSE 1

\* main.py lines 131-161: the names the if/elif chain accepts
SupportedModels ==
    {"vgg", "resnet", "pre_act_resnet", "googlenet", "densenet", "resnex",
     "mobilenet", "mobilenet_v2", "dpn", "shufflenet", "senet",
     "shufflenet_v2", "efficientnet", "regnetx", "dla"}

\* The --model values Init draws: a supported name and two that the chain
\* does not know ("resnext" is not the chain's "resnex").
ModelNames == {"resnet", "not_a_model", "resnext"}

\* The --overshoot values Init draws (default 0).
OvershootValues == {0, 1}

\* The --lr values Init draws, in units of 0.025 (default 0.1).
LrValues == {4}

\* The loss values a batch can have (abstract units).
LossValues == {1, 2}

\* The trainable tensors of the network.
Params == {1, 2}

\* The four keys of an epoch record, in the order line 185 inserts them.
StatKeys == <<"train_loss", "train_acc", "val_loss", "val_acc">>

\* ----------------------------------------------------------------- helpers

\* The batch sizes a DataLoader over n samples yields with batch size b
\* (drop_last is False: the last batch holds the remainder).
RECURSIVE Batches(_, _)
Batches(n, b) ==
    IF n <= 0 THEN <<>>
    ELSE IF n <= b THEN <<n>>
    ELSE <<b>> \o Batches(n - b, b)

\* The outcomes of the batches of a loader: per batch, the criterion's value
\* and the number of predictions that equal their targets.
OutcomeTables(sizes) ==
    {t \in [1..Len(sizes) -> [loss : LossValues, correct : 0..MaxBatchSize]] :
        \A i \in 1..Len(sizes) : t[i].correct <= sizes[i]}

\* Equality of two fractions <<num, den>> with positive denominators.
RatEq(a, b) == a[1] * b[2] = b[1] * a[2]

\* The sum of two fractions.
RatAdd(a, b) == <<a[1] * b[2] + b[1] * a[2], a[2] * b[2]>>

\* A variant of MeanLoss that divides by the number of samples.
MeanLoss_bySamples(sum_loss, total, batch_idx) == <<sum_loss, total>>

\* train_loss/(batch_idx+1) of lines 49 and 76, as a fraction.
MeanLoss(sum_loss, total, batch_idx) == <<sum_loss, batch_idx + 1>>

\* A variant of Accuracy that divides by the number of batches, as the loss.
Accuracy_perBatch(correct, total, batch_idx) == <<100 * correct, batch_idx + 1>>

\* 100.*correct/total of lines 49 and 76, as a fraction.
Accuracy(correct, total, batch_idx) == <<100 * correct, total>>

\* CosineAnnealingLR's closed form, eta_min = 0:
\*   lr(t) = base_lr * (1 + cos(pi * t / T_max)) / 2,
\* with Bhaskara's rational approximation of the cosine,
\*   cos(pi * x) ~ (1 - 4x^2) / (1 + x^2)  for |x| <= 1/2,
\* mirrored for x > 1/2, and integer division.
CosNum(t, T) ==
    IF 2 * t <= T THEN T * T - 4 * t * t
    ELSE 0 - (T * T - 4 * (T - t) * (T - t))
CosDen(t, T) ==
    IF 2 * t <= T THEN T * T + t * t
    ELSE T * T + (T - t) * (T - t)
CosineAnnealingLR(base_lr, t, T) ==
    (base_lr * (CosDen(t, T) + CosNum(t, T))) \div (2 * CosDen(t, T))

\* criterion(outputs, targets), lines 38 and 63: the batch's loss as the data
\* give it, drifting by one unit per epoch and by `epochs` units per seed, so
\* that the records of different epochs and of different runs differ.
CriterionValue(batch_loss, s, e) == batch_loss + e + epochs * s

\* The weights of a freshly constructed network: a function of the seed that
\* torch.manual_seed(11 * seed) sets.
FreshWeights(s) == [p \in Params |-> 11 * s + p]

\* ------------------------------------------------------------------- state

VARIABLES
    args,        \* the parsed command line: model, overshoot, lr
    data,        \* the data on disk: sizes and per-batch outcomes
    pc,          \* the statement the program is at
    seed,        \* the run loop's variable
    fs,          \* the files written: log directories, main.py copy, stats.csv
    log_writer,  \* the SummaryWriter of the run: log_dir and the scalars added
    loaders,     \* trainloader and testloader: the batch sizes they yield
    net,         \* the network: weights, gradients, train/eval mode
    optimizer,   \* the optimizer: kind, lr, momentum, base/overshoot, live
    scheduler,   \* the CosineAnnealingLR: base_lr, T_max, last_epoch
    stats,       \* the list of epoch records of the run
    epoch,       \* the epoch loop's variable
    frame,       \* the locals of train() / test()
    rets,        \* train_loss, train_acc, val_loss, val_acc of line 180-181
    trace,       \* history: the events of the current epoch, in order
    hist,        \* history: the batches the current pass has accounted
    produced,    \* history: every epoch record made, with its run and epoch
    calls,       \* history: calls counted (step: on the run's optimizer)
    snap         \* history: the optimizer and the weights as test() was entered

vars == <<args, data, pc, seed, fs, log_writer, loaders, net, optimizer,
          scheduler, stats, epoch, frame, rets, trace, hist, produced, calls,
          snap>>

NoFrame == [fn |-> "none", loss_sum |-> 0, correct |-> 0, total |-> 0,
            batch_idx |-> -1, inputs |-> 0, outputs |-> 0, loss |-> 0]

NoRets == [train_loss |-> <<0, 1>>, train_acc |-> <<0, 1>>,
           val_loss |-> <<0, 1>>, val_acc |-> <<0, 1>>]

NoNet == [built |-> FALSE, mode |-> "train",
          w |-> [p \in Params |-> 0], grad |-> [p \in Params |-> 0]]

NoOptimizer == [kind |-> "none", lr |-> 0, overshoot |-> 0,
                mom |-> [p \in Params |-> 0],
                base |-> [p \in Params |-> 0],
                over |-> [p \in Params |-> 0],
                live |-> [p \in Params |-> "NONE"]]

NoScheduler == [base_lr |-> 0, T_max |-> 0, last_epoch |-> 0]

NoCalls == [step |-> 0, move_to_base |-> 0, move_to_overshoot |-> 0,
            datasets |-> 0, train_batches |-> 0, test_batches |-> 0,
            runs |-> <<>>]

\* The data the program can be started on: the sizes of the two sets and the
\* outcome of every batch the loaders will yield.
DataSets ==
    UNION {{[train_n |-> tn, test_n |-> sn, train_out |-> to, test_out |-> so] :
                to \in OutcomeTables(Batches(tn, train_batch_size)),
                so \in OutcomeTables(Batches(sn, test_batch_size))} :
            tn \in 1..MaxTrainData, sn \in 1..MaxTestData}

Init ==
    /\ args \in [model : ModelNames, overshoot : OvershootValues, lr : LrValues]
    /\ data \in DataSets
    /\ pc = "run_loop"
    /\ seed = -1
    /\ fs = [dirs |-> {}, script_copies |-> 0,
             csv |-> [v \in 1..n_runs |-> <<>>],
             csv_writes |-> [v \in 1..n_runs |-> 0]]
    /\ log_writer = [log_dir |-> 0, scalars |-> <<>>]
    /\ loaders = [train |-> <<>>, test |-> <<>>]
    /\ net = NoNet
    /\ optimizer = NoOptimizer
    /\ scheduler = NoScheduler
    /\ stats = <<>>
    /\ epoch = -1
    /\ frame = NoFrame
    /\ rets = NoRets
    /\ trace = <<>>
    /\ hist = <<>>
    /\ produced = <<>>
    /\ calls = NoCalls
    /\ snap = [w |-> NoNet.w, grad |-> NoNet.grad, optimizer |-> NoOptimizer]

\* ------------------------------------------------------ the SGDO optimizer
\* (sgd_overshoot.SGDO, modelled from the specification, section 4.1)

\* SGDO(params, lr, momentum, weight_decay, overshoot): base and overshoot
\* snapshots both equal the parameters; which of the two is live at first is
\* implementation-defined.
SGDO_new(w, lr, overshoot, live0) ==
    [kind |-> "SGDO", lr |-> lr, overshoot |-> overshoot,
     mom |-> [p \in Params |-> 0], base |-> w, over |-> w,
     live |-> [p \in Params |-> live0]]

\* The momentum buffer after a step: momentum 0.9, weight decay 5e-4 on the
\* live value the gradient was computed at.
NextMomentum(mom, grad, w) ==
    [p \in Params |-> (9 * mom[p]) \div 10 + grad[p] + (5 * w[p]) \div 10000]

\* step(): momentum and base follow the momentum-SGD rule; the overshoot
\* point is base extrapolated along the same update by the overshoot factor;
\* the overshoot point is left live.
SGDO_step(o, w, grad) ==
    LET m == NextMomentum(o.mom, grad, w)
        b == [p \in Params |-> o.base[p] - o.lr * m[p]]
        v == [p \in Params |-> b[p] - o.overshoot * o.lr * m[p]]
    IN  [o EXCEPT !.mom = m, !.base = b, !.over = v,
                  !.live = [p \in Params |-> "OVERSHOOT_LIVE"]]

\* move_to_base(): every parameter's live value becomes its base value.
SGDO_move_to_base(o) == [o EXCEPT !.live = [p \in Params |-> "BASE_LIVE"]]

\* move_to_overshoot(): every parameter's live value becomes its overshoot value.
SGDO_move_to_overshoot(o) ==
    [o EXCEPT !.live = [p \in Params |-> "OVERSHOOT_LIVE"]]

\* The values the network's parameters hold under optimizer o: the tensors
\* are shared between the network and the optimizer (net.parameters()).
LiveValues(o) ==
    [p \in Params |-> IF o.live[p] = "BASE_LIVE" THEN o.base[p] ELSE o.over[p]]

\* ------------------------------------------------- torch.optim.SGD (line 174)

SGD_new(w, lr) ==
    [kind |-> "SGD", lr |-> lr, overshoot |-> 0,
     mom |-> [p \in Params |-> 0], base |-> w, over |-> w,
     live |-> [p \in Params |-> "NONE"]]

\* step() of momentum-SGD: the parameters themselves move; base and over
\* mirror them (the optimizer keeps no second snapshot).
SGD_step(o, w, grad) ==
    LET m  == NextMomentum(o.mom, grad, w)
        w2 == [p \in Params |-> w[p] - o.lr * m[p]]
    IN  [o EXCEPT !.mom = m, !.base = w2, !.over = w2]

\* A variant of IsSGDO without the capability check.
IsSGDO_always(o) == TRUE

\* isinstance(optimizer, SGDO), lines 54 and 74
IsSGDO(o) == o.kind = "SGDO"

\* ------------------------------------------------------------ the run loop

\* The epoch's history of events grows by event e.
Event(e) == trace' = Append(trace, e)

\* Lines 92-93: for seed in range(n_runs): torch.manual_seed(11 * seed)
RunLoop ==
    /\ pc = "run_loop"
    /\ seed + 1 < n_runs
    /\ seed' = seed + 1
    /\ pc' = "logs"
    /\ calls' = [calls EXCEPT !.runs = Append(@, seed + 1)]
    /\ trace' = <<>>
    /\ UNCHANGED <<args, data, fs, log_writer, loaders, net, optimizer,
                   scheduler, stats, epoch, frame, rets, hist, produced, snap>>

\* Line 92, the range exhausted: the script ends.
RunLoopExit ==
    /\ pc = "run_loop"
    /\ seed + 1 >= n_runs
    /\ pc' = "exit"
    /\ UNCHANGED <<args, data, seed, fs, log_writer, loaders, net, optimizer,
                   scheduler, stats, epoch, frame, rets, trace, hist, produced,
                   calls, snap>>

\* Lines 96-99: the log directory, the SummaryWriter of version_<seed+1> and
\* the copy of the script.
SetupLogs ==
    /\ pc = "logs"
    /\ fs' = [fs EXCEPT !.dirs = @ \cup {seed + 1}, !.script_copies = @ + 1]
    /\ log_writer' = [log_dir |-> seed + 1, scalars |-> <<>>]
    /\ pc' = "data"
    /\ UNCHANGED <<args, data, seed, loaders, net, optimizer, scheduler, stats,
                   epoch, frame, rets, trace, hist, produced, calls, snap>>

\* Lines 102-126: the two CIFAR10 data sets and their loaders.
PrepareData ==
    /\ pc = "data"
    /\ loaders' = [train |-> Batches(data.train_n, train_batch_size),
                   test |-> Batches(data.test_n, test_batch_size)]
    /\ calls' = [calls EXCEPT !.datasets = @ + 2]
    /\ pc' = "model"
    /\ UNCHANGED <<args, data, seed, fs, log_writer, net, optimizer, scheduler,
                   stats, epoch, frame, rets, trace, hist, produced, snap>>

\* A variant of BuildModel that keeps the network of the run before.
BuildModel_reused ==
    /\ pc = "model"
    /\ args.model \in SupportedModels
    /\ net' = IF net.built THEN net
              ELSE [built |-> TRUE, mode |-> "train", w |-> FreshWeights(seed),
                    grad |-> [p \in Params |-> 0]]
    /\ pc' = "optimizer"
    /\ UNCHANGED <<args, data, seed, fs, log_writer, loaders, optimizer,
                   scheduler, stats, epoch, frame, rets, trace, hist, produced,
                   calls, snap>>

\* Lines 131-161: a branch of the if/elif chain constructs the network.
BuildModel ==
    /\ pc = "model"
    /\ args.model \in SupportedModels
    /\ net' = [built |-> TRUE, mode |-> "train", w |-> FreshWeights(seed),
               grad |-> [p \in Params |-> 0]]
    /\ pc' = "optimizer"
    /\ UNCHANGED <<args, data, seed, fs, log_writer, loaders, optimizer,
                   scheduler, stats, epoch, frame, rets, trace, hist, produced,
                   calls, snap>>

\* A variant of RaiseUnsupported that goes on with the next seed.
RaiseUnsupported_continue ==
    /\ pc = "model"
    /\ args.model \notin SupportedModels
    /\ pc' = "run_loop"
    /\ UNCHANGED <<args, data, seed, fs, log_writer, loaders, net, optimizer,
                   scheduler, stats, epoch, frame, rets, trace, hist, produced,
                   calls, snap>>

\* Lines 162-163: raise Exception("Unsupported model name ..."), uncaught.
RaiseUnsupported ==
    /\ pc = "model"
    /\ args.model \notin SupportedModels
    /\ pc' = "raised"
    /\ UNCHANGED <<args, data, seed, fs, log_writer, loaders, net, optimizer,
                   scheduler, stats, epoch, frame, rets, trace, hist, produced,
                   calls, snap>>

\* Lines 165-178 with --overshoot > 0: the SGDO optimizer, epochs, the
\* scheduler and the empty stats list.
BuildOptimizerSGDO ==
    /\ pc = "optimizer"
    /\ args.overshoot > 0
    /\ \E live0 \in {"BASE_LIVE", "OVERSHOOT_LIVE"} :
          optimizer' = SGDO_new(net.w, args.lr, args.overshoot, live0)
    /\ scheduler' = [base_lr |-> args.lr, T_max |-> epochs, last_epoch |-> 0]
    /\ stats' = <<>>
    /\ epoch' = -1
    /\ calls' = [calls EXCEPT !.step = 0]
    /\ pc' = "epoch_loop"
    /\ UNCHANGED <<args, data, seed, fs, log_writer, loaders, net, frame, rets,
                   trace, hist, produced, snap>>

\* Lines 165-178 otherwise: torch.optim.SGD.
BuildOptimizerSGD ==
    /\ pc = "optimizer"
    /\ ~(args.overshoot > 0)
    /\ optimizer' = SGD_new(net.w, args.lr)
    /\ scheduler' = [base_lr |-> args.lr, T_max |-> epochs, last_epoch |-> 0]
    /\ stats' = <<>>
    /\ epoch' = -1
    /\ calls' = [calls EXCEPT !.step = 0]
    /\ pc' = "epoch_loop"
    /\ UNCHANGED <<args, data, seed, fs, log_writer, loaders, net, frame, rets,
                   trace, hist, produced, snap>>

\* Lines 179-180: for epoch in range(epochs): train(epoch) is called.
EpochLoop ==
    /\ pc = "epoch_loop"
    /\ epoch + 1 < epochs
    /\ epoch' = epoch + 1
    /\ trace' = <<>>
    /\ pc' = "train_enter"
    /\ UNCHANGED <<args, data, seed, fs, log_writer, loaders, net, optimizer,
                   scheduler, stats, frame, rets, hist, produced, calls, snap>>

\* Line 189: after the loop, stats.csv is written into the writer's log_dir.
WriteCsv ==
    /\ pc = "epoch_loop"
    /\ epoch + 1 >= epochs
    /\ fs' = [fs EXCEPT !.csv[log_writer.log_dir] = stats,
                        !.csv_writes[log_writer.log_dir] = @ + 1]
    /\ pc' = "run_loop"
    /\ UNCHANGED <<args, data, seed, log_writer, loaders, net, optimizer,
                   scheduler, stats, epoch, frame, rets, trace, hist, produced,
                   calls, snap>>

\* ------------------------------------------------------------------ train()

\* Lines 29-33: net.train() and the three accumulators.
TrainEnter ==
    /\ pc = "train_enter"
    /\ net' = [net EXCEPT !.mode = "train"]
    /\ frame' = [NoFrame EXCEPT !.fn = "train"]
    /\ hist' = <<>>
    /\ pc' = "train_loop"
    /\ UNCHANGED <<args, data, seed, fs, log_writer, loaders, optimizer,
                   scheduler, stats, epoch, rets, trace, produced, calls, snap>>

\* Lines 34-35: the loader yields the next batch.
TrainNext ==
    /\ pc = "train_loop"
    /\ frame.batch_idx + 1 < Len(loaders.train)
    /\ frame' = [frame EXCEPT !.batch_idx = @ + 1,
                              !.inputs = loaders.train[frame.batch_idx + 2]]
    /\ calls' = [calls EXCEPT !.train_batches = @ + 1]
    /\ pc' = "zero_grad"
    /\ UNCHANGED <<args, data, seed, fs, log_writer, loaders, net, optimizer,
                   scheduler, stats, epoch, rets, trace, hist, produced, snap>>

\* Line 36: optimizer.zero_grad()
ZeroGrad ==
    /\ pc = "zero_grad"
    /\ net' = [net EXCEPT !.grad = [p \in Params |-> 0]]
    /\ Event("zero_grad")
    /\ pc' = "forward"
    /\ UNCHANGED <<args, data, seed, fs, log_writer, loaders, optimizer,
                   scheduler, stats, epoch, frame, rets, hist, produced, calls,
                   snap>>

\* Line 37: outputs = net(inputs); the outputs are kept as the number of
\* samples they classify correctly.
Forward ==
    /\ pc = "forward"
    /\ frame' = [frame EXCEPT
                    !.outputs = data.train_out[frame.batch_idx + 1].correct]
    /\ Event("forward")
    /\ pc' = "loss"
    /\ UNCHANGED <<args, data, seed, fs, log_writer, loaders, net, optimizer,
                   scheduler, stats, epoch, rets, hist, produced, calls, snap>>

\* Line 38: loss = criterion(outputs, targets)
Loss ==
    /\ pc = "loss"
    /\ frame' = [frame EXCEPT !.loss =
          CriterionValue(data.train_out[frame.batch_idx + 1].loss, seed, epoch)]
    /\ Event("loss")
    /\ pc' = "backward"
    /\ UNCHANGED <<args, data, seed, fs, log_writer, loaders, net, optimizer,
                   scheduler, stats, epoch, rets, hist, produced, calls, snap>>

\* Line 39: loss.backward(): every parameter gets a gradient, here the loss
\* scaled by the parameter's index.
Backward ==
    /\ pc = "backward"
    /\ net' = [net EXCEPT !.grad = [p \in Params |-> @[p] + p * frame.loss]]
    /\ Event("backward")
    /\ pc' = "step"
    /\ UNCHANGED <<args, data, seed, fs, log_writer, loaders, optimizer,
                   scheduler, stats, epoch, frame, rets, hist, produced, calls,
                   snap>>

\* Line 40: optimizer.step(), of whichever optimizer the run built.
Step ==
    /\ pc = "step"
    /\ optimizer' = IF optimizer.kind = "SGDO"
                    THEN SGDO_step(optimizer, net.w, net.grad)
                    ELSE SGD_step(optimizer, net.w, net.grad)
    /\ net' = [net EXCEPT !.w = LiveValues(optimizer')]
    /\ calls' = [calls EXCEPT !.step = @ + 1]
    /\ Event("step")
    /\ pc' = "train_account"
    /\ UNCHANGED <<args, data, seed, fs, log_writer, loaders, scheduler, stats,
                   epoch, frame, rets, hist, produced, snap>>

\* Lines 42-48: the accumulators (and the progress bar, which changes nothing).
TrainAccount ==
    /\ pc = "train_account"
    /\ frame' = [frame EXCEPT !.loss_sum = @ + frame.loss,
                              !.total = @ + frame.inputs,
                              !.correct = @ + frame.outputs]
    /\ hist' = Append(hist, [size |-> frame.inputs, loss |-> frame.loss,
                             correct |-> frame.outputs])
    /\ pc' = "train_loop"
    /\ UNCHANGED <<args, data, seed, fs, log_writer, loaders, net, optimizer,
                   scheduler, stats, epoch, rets, trace, produced, calls, snap>>

\* Line 49, then line 181: train() returns and test(epoch) is called.
TrainReturn ==
    /\ pc = "train_loop"
    /\ frame.batch_idx + 1 >= Len(loaders.train)
    /\ rets' = [rets EXCEPT
                  !.train_loss = MeanLoss(frame.loss_sum, frame.total, frame.batch_idx),
                  !.train_acc = Accuracy(frame.correct, frame.total, frame.batch_idx)]
    /\ Event("train_return")
    /\ pc' = "test_enter"
    /\ UNCHANGED <<args, data, seed, fs, log_writer, loaders, net, optimizer,
                   scheduler, stats, epoch, frame, hist, produced, calls, snap>>

\* ------------------------------------------------------------------- test()

\* Line 53: net.eval()
TestEnter ==
    /\ pc = "test_enter"
    /\ net' = [net EXCEPT !.mode = "eval"]
    /\ hist' = <<>>
    /\ snap' = [w |-> net.w, grad |-> net.grad, optimizer |-> optimizer]
    /\ pc' = "test_to_base"
    /\ UNCHANGED <<args, data, seed, fs, log_writer, loaders, optimizer,
                   scheduler, stats, epoch, frame, rets, trace, produced, calls>>

\* A variant of TestMoveToBase that leaves the call of line 55 out.
TestMoveToBase_missing ==
    /\ pc = "test_to_base"
    /\ IsSGDO(optimizer)
    /\ frame' = [NoFrame EXCEPT !.fn = "test"]
    /\ pc' = "test_loop"
    /\ UNCHANGED <<args, data, seed, fs, log_writer, loaders, net, optimizer,
                   scheduler, stats, epoch, rets, trace, hist, produced,
                   calls, snap>>

\* Lines 54-58 with an SGDO optimizer: move_to_base(), then the accumulators.
TestMoveToBase ==
    /\ pc = "test_to_base"
    /\ IsSGDO(optimizer)
    /\ optimizer' = SGDO_move_to_base(optimizer)
    /\ net' = [net EXCEPT !.w = LiveValues(optimizer')]
    /\ calls' = [calls EXCEPT !.move_to_base = @ + 1]
    /\ Event("move_to_base")
    /\ frame' = [NoFrame EXCEPT !.fn = "test"]
    /\ pc' = "test_loop"
    /\ UNCHANGED <<args, data, seed, fs, log_writer, loaders, scheduler, stats,
                   epoch, rets, hist, produced, snap>>

\* Lines 54-58 otherwise: the call is skipped.
TestSkipMoveToBase ==
    /\ pc = "test_to_base"
    /\ ~IsSGDO(optimizer)
    /\ frame' = [NoFrame EXCEPT !.fn = "test"]
    /\ pc' = "test_loop"
    /\ UNCHANGED <<args, data, seed, fs, log_writer, loaders, net, optimizer,
                   scheduler, stats, epoch, rets, trace, hist, produced,
                   calls, snap>>

\* Lines 60-61: the test loader yields the next batch.
TestNext ==
    /\ pc = "test_loop"
    /\ frame.batch_idx + 1 < Len(loaders.test)
    /\ frame' = [frame EXCEPT !.batch_idx = @ + 1,
                              !.inputs = loaders.test[frame.batch_idx + 2]]
    /\ calls' = [calls EXCEPT !.test_batches = @ + 1]
    /\ pc' = "eval_forward"
    /\ UNCHANGED <<args, data, seed, fs, log_writer, loaders, net, optimizer,
                   scheduler, stats, epoch, rets, trace, hist, produced, snap>>

\* Line 62: outputs = net(inputs), under torch.no_grad()
TestForward ==
    /\ pc = "eval_forward"
    /\ frame' = [frame EXCEPT
                    !.outputs = data.test_out[frame.batch_idx + 1].correct]
    /\ Event("eval_forward")
    /\ pc' = "eval_loss"
    /\ UNCHANGED <<args, data, seed, fs, log_writer, loaders, net, optimizer,
                   scheduler, stats, epoch, rets, hist, produced, calls, snap>>

\* Lines 63-71: the loss and the accumulators.
TestAccount ==
    /\ pc = "eval_loss"
    /\ LET l == CriterionValue(data.test_out[frame.batch_idx + 1].loss,
                               seed, epoch) IN
         /\ frame' = [frame EXCEPT !.loss = l,
                                   !.loss_sum = @ + l,
                                   !.total = @ + frame.inputs,
                                   !.correct = @ + frame.outputs]
         /\ hist' = Append(hist, [size |-> frame.inputs, loss |-> l,
                                  correct |-> frame.outputs])
    /\ Event("eval_loss")
    /\ pc' = "test_loop"
    /\ UNCHANGED <<args, data, seed, fs, log_writer, loaders, net, optimizer,
                   scheduler, stats, epoch, rets, produced, calls, snap>>

\* A variant of TestMoveToOvershoot that leaves the call of line 75 out.
TestMoveToOvershoot_missing ==
    /\ pc = "test_loop"
    /\ frame.batch_idx + 1 >= Len(loaders.test)
    /\ IsSGDO(optimizer)
    /\ pc' = "test_return"
    /\ UNCHANGED <<args, data, seed, fs, log_writer, loaders, net, optimizer,
                   scheduler, stats, epoch, frame, rets, trace, hist, produced,
                   calls, snap>>

\* A variant of TestMoveToOvershoot that calls move_to_base a second time.
TestMoveToOvershoot_toBase ==
    /\ pc = "test_loop"
    /\ frame.batch_idx + 1 >= Len(loaders.test)
    /\ IsSGDO(optimizer)
    /\ optimizer' = SGDO_move_to_base(optimizer)
    /\ net' = [net EXCEPT !.w = LiveValues(optimizer')]
    /\ calls' = [calls EXCEPT !.move_to_base = @ + 1]
    /\ Event("move_to_base")
    /\ pc' = "test_return"
    /\ UNCHANGED <<args, data, seed, fs, log_writer, loaders, scheduler, stats,
                   epoch, frame, rets, hist, produced, snap>>

\* Lines 74-75 with an SGDO optimizer, the loader exhausted:
\* move_to_overshoot().
TestMoveToOvershoot ==
    /\ pc = "test_loop"
    /\ frame.batch_idx + 1 >= Len(loaders.test)
    /\ IsSGDO(optimizer)
    /\ optimizer' = SGDO_move_to_overshoot(optimizer)
    /\ net' = [net EXCEPT !.w = LiveValues(optimizer')]
    /\ calls' = [calls EXCEPT !.move_to_overshoot = @ + 1]
    /\ Event("move_to_overshoot")
    /\ pc' = "test_return"
    /\ UNCHANGED <<args, data, seed, fs, log_writer, loaders, scheduler, stats,
                   epoch, frame, rets, hist, produced, snap>>

\* Lines 74-75 otherwise: the call is skipped.
TestSkipMoveToOvershoot ==
    /\ pc = "test_loop"
    /\ frame.batch_idx + 1 >= Len(loaders.test)
    /\ ~IsSGDO(optimizer)
    /\ pc' = "test_return"
    /\ UNCHANGED <<args, data, seed, fs, log_writer, loaders, net, optimizer,
                   scheduler, stats, epoch, frame, rets, trace, hist, produced,
                   calls, snap>>

\* Line 76, then line 181's assignment: test() returns.
TestReturn ==
    /\ pc = "test_return"
    /\ rets' = [rets EXCEPT
                  !.val_loss = MeanLoss(frame.loss_sum, frame.total, frame.batch_idx),
                  !.val_acc = Accuracy(frame.correct, frame.total, frame.batch_idx)]
    /\ Event("test_return")
    /\ pc' = "scheduler_step"
    /\ UNCHANGED <<args, data, seed, fs, log_writer, loaders, net, optimizer,
                   scheduler, stats, epoch, frame, hist, produced, calls, snap>>

\* ---------------------------------------------------- the rest of the epoch

\* A variant of SchedulerStep that steps the scheduler twice.
SchedulerStep_twice ==
    /\ pc = "scheduler_step"
    /\ scheduler' = [scheduler EXCEPT !.last_epoch = @ + 2]
    /\ optimizer' = [optimizer EXCEPT !.lr =
          CosineAnnealingLR(scheduler.base_lr, scheduler.last_epoch + 2,
                            scheduler.T_max)]
    /\ trace' = trace \o <<"scheduler_step", "scheduler_step">>
    /\ pc' = "append"
    /\ UNCHANGED <<args, data, seed, fs, log_writer, loaders, net, stats, epoch,
                   frame, rets, hist, produced, calls, snap>>

\* Line 182: scheduler.step() sets the optimizer's learning rate.
SchedulerStep ==
    /\ pc = "scheduler_step"
    /\ scheduler' = [scheduler EXCEPT !.last_epoch = @ + 1]
    /\ optimizer' = [optimizer EXCEPT !.lr =
          CosineAnnealingLR(scheduler.base_lr, scheduler.last_epoch + 1,
                            scheduler.T_max)]
    /\ Event("scheduler_step")
    /\ pc' = "append"
    /\ UNCHANGED <<args, data, seed, fs, log_writer, loaders, net, stats, epoch,
                   frame, rets, hist, produced, calls, snap>>

\* A variant of AppendStats that puts the record in front.
AppendStats_atFront ==
    /\ pc = "append"
    /\ stats' = <<rets>> \o stats
    /\ produced' = Append(produced, [run |-> seed, epoch |-> epoch, rec |-> rets])
    /\ Event("append")
    /\ pc' = "add_scalar"
    /\ UNCHANGED <<args, data, seed, fs, log_writer, loaders, net, optimizer,
                   scheduler, epoch, frame, rets, hist, calls, snap>>

\* Line 185: the epoch record is appended to stats.
AppendStats ==
    /\ pc = "append"
    /\ stats' = Append(stats, rets)
    /\ produced' = Append(produced, [run |-> seed, epoch |-> epoch, rec |-> rets])
    /\ Event("append")
    /\ pc' = "add_scalar"
    /\ UNCHANGED <<args, data, seed, fs, log_writer, loaders, net, optimizer,
                   scheduler, epoch, frame, rets, hist, calls, snap>>

\* The keys of stats[-1] that line 186's loop has not reached yet.
ScalarsOfEpoch ==
    Len(SelectSeq(log_writer.scalars, LAMBDA e : e.step = epoch))

\* Lines 186-187: log_writer.add_scalar(k, v, epoch) for the next key; after
\* the last key the epoch loop continues.
AddScalar ==
    /\ pc = "add_scalar"
    /\ LET i == ScalarsOfEpoch + 1
           k == StatKeys[i]
       IN  /\ log_writer' = [log_writer EXCEPT !.scalars =
                  Append(@, [key |-> k, value |-> stats[Len(stats)][k],
                             step |-> epoch])]
           /\ pc' = IF i = Len(StatKeys) THEN "epoch_loop" ELSE "add_scalar"
    /\ UNCHANGED <<args, data, seed, fs, loaders, net, optimizer, scheduler,
                   stats, epoch, frame, rets, trace, hist, produced, calls, snap>>

\* ------------------------------------------------------- the specification

Next ==
    \/ RunLoop
    \/ RunLoopExit
    \/ SetupLogs
    \/ PrepareData
    \/ BuildModel
    \/ RaiseUnsupported
    \/ BuildOptimizerSGDO
    \/ BuildOptimizerSGD
    \/ EpochLoop
    \/ WriteCsv
    \/ TrainEnter
    \/ TrainNext
    \/ ZeroGrad
    \/ Forward
    \/ Loss
    \/ Backward
    \/ Step
    \/ TrainAccount
    \/ TrainReturn
    \/ TestEnter
    \/ TestMoveToBase
    \/ TestSkipMoveToBase
    \/ TestNext
    \/ TestForward
    \/ TestAccount
    \/ TestMoveToOvershoot
    \/ TestSkipMoveToOvershoot
    \/ TestReturn
    \/ SchedulerStep
    \/ AppendStats
    \/ AddScalar

Spec == Init /\ [][Next]_vars

\* ------------------------------------------------------------------ claims

\* How often event e occurs in a sequence of events.
Count(seq, e) == Cardinality({i \in DOMAIN seq : seq[i] = e})

\* Every parameter of optimizer o is in live state st.
AllLive(o, st) == \A p \in Params : o.live[p] = st

\* The statements of an epoch, from train()'s first to the append of line 185.
InEpochBody ==
    pc \in {"train_enter", "train_loop", "zero_grad", "forward", "loss",
            "backward", "step", "train_account", "test_enter", "test_to_base",
            "test_loop", "eval_forward", "eval_loss", "test_return",
            "scheduler_step", "append"}

\* C1: in a run with an SGDO optimizer, test() has called move_to_base exactly
\* once and move_to_overshoot not yet whenever an evaluation forward pass is
\* about to run, so the pass sees every parameter BASE_LIVE (the weights are
\* the base values); when test() returns, move_to_overshoot has been called
\* exactly once, after the last evaluation batch, and every parameter is
\* OVERSHOOT_LIVE.
C1_TestSwitchesAroundEvaluation ==
    optimizer.kind = "SGDO" =>
        /\ pc \in {"test_loop", "eval_forward", "eval_loss"} =>
              /\ Count(trace, "move_to_base") = 1
              /\ Count(trace, "move_to_overshoot") = 0
              /\ AllLive(optimizer, "BASE_LIVE")
              /\ net.w = optimizer.base
        /\ pc \in {"test_return", "scheduler_step"} =>
              /\ Count(trace, "move_to_base") = 1
              /\ Count(trace, "move_to_overshoot") = 1
              /\ Count(trace, "eval_forward") = Len(loaders.test)
              /\ trace[Len(trace) - (IF pc = "test_return" THEN 0 ELSE 1)]
                    = "move_to_overshoot"
              /\ AllLive(optimizer, "OVERSHOOT_LIVE")
              /\ net.w = optimizer.over

\* C1's case: an SGDO run's test() has returned after two evaluation batches,
\* with base and overshoot values that differ.
C1_Witness ==
    /\ optimizer.kind = "SGDO"
    /\ pc = "scheduler_step"
    /\ Count(trace, "eval_forward") = 2
    /\ AllLive(optimizer, "OVERSHOOT_LIVE")
    /\ optimizer.base # optimizer.over

\* C2: with --overshoot 0 the optimizer of every run is plain SGD, and
\* move_to_base and move_to_overshoot are never called: neither is counted, no
\* epoch's events hold one, and no parameter ever gets a live state.
C2_PlainSGDNeverSwitches ==
    args.overshoot = 0 =>
        /\ optimizer.kind \in {"none", "SGD"}
        /\ (InEpochBody \/ pc \in {"epoch_loop", "add_scalar"}) =>
              optimizer.kind = "SGD"
        /\ calls.move_to_base = 0
        /\ calls.move_to_overshoot = 0
        /\ Count(trace, "move_to_base") = 0
        /\ Count(trace, "move_to_overshoot") = 0
        /\ AllLive(optimizer, "NONE")

\* C2's case: the script has ended with --overshoot 0, both runs done with
\* plain SGD and every epoch evaluated.
C2_Witness ==
    /\ args.overshoot = 0
    /\ pc = "exit"
    /\ optimizer.kind = "SGD"
    /\ Len(produced) = n_runs * epochs
    /\ calls.test_batches > 0

\* C3 as stated: when the unsupported-model error is raised, no data set and
\* no loader has been constructed yet (and nothing has been trained, evaluated
\* or written).
C3_RaisedBeforeDataLoading ==
    pc = "raised" =>
        /\ calls.datasets = 0
        /\ loaders.train = <<>>
        /\ loaders.test = <<>>
        /\ calls.train_batches = 0
        /\ calls.test_batches = 0
        /\ log_writer.scalars = <<>>
        /\ \A v \in 1..n_runs : fs.csv_writes[v] = 0

\* C3 as amended: a model name outside the supported set never gets past the
\* model selection of the first run: no network is built, no batch is trained
\* or evaluated, no scalar and no stats.csv is written; the error is raised
\* only for such a name, in the first run, after that run's log directory,
\* script copy, data sets and loaders have been set up.
C3_RaisedAfterDataLoadingBeforeTraining ==
    /\ args.model \notin SupportedModels =>
          /\ pc \in {"run_loop", "logs", "data", "model", "raised"}
          /\ seed <= 0
          /\ ~net.built
          /\ optimizer.kind = "none"
          /\ calls.train_batches = 0
          /\ calls.test_batches = 0
          /\ stats = <<>>
          /\ log_writer.scalars = <<>>
          /\ \A v \in 1..n_runs : fs.csv_writes[v] = 0 /\ fs.csv[v] = <<>>
    /\ pc = "raised" =>
          /\ args.model \notin SupportedModels
          /\ seed = 0
          /\ fs.dirs = {1}
          /\ fs.script_copies = 1
          /\ log_writer.log_dir = 1
          /\ calls.datasets = 2
          /\ loaders.train = Batches(data.train_n, train_batch_size)
          /\ loaders.test = Batches(data.test_n, test_batch_size)
          /\ loaders.train # <<>>
          /\ loaders.test # <<>>

\* C3's case: the error has been raised for a name the chain does not know.
C3_Witness ==
    /\ pc = "raised"
    /\ args.model = "not_a_model"
    /\ calls.datasets = 2
    /\ calls.train_batches = 0

\* The records run s has produced, in the order it produced them.
RunRecords(s) == SelectSeq(produced, LAMBDA r : r.run = s)

\* The scalars the current writer holds under key k for step e.
ScalarsAt(k, e) ==
    {i \in DOMAIN log_writer.scalars :
        log_writer.scalars[i].key = k /\ log_writer.scalars[i].step = e}

\* The stats.csv of run s holds exactly the records of that run's epochs
\* 0..epochs-1, one row each, in ascending epoch order.
CsvIsTheRunsRecords(s) ==
    /\ Len(fs.csv[s + 1]) = epochs
    /\ Len(RunRecords(s)) = epochs
    /\ \A e \in 0..(epochs - 1) :
          /\ RunRecords(s)[e + 1].epoch = e
          /\ fs.csv[s + 1][e + 1] = RunRecords(s)[e + 1].rec

\* C4: a run with a supported model writes stats.csv once, after its last
\* epoch, with one row per epoch in ascending epoch order; the metrics sink
\* gets each of the four keys exactly once per epoch index; and the number of
\* records in stats is the number of epochs whose passes and append are done:
\* the loop variable while an epoch's passes run, one more from the append on.
C4_OneRecordPerEpoch ==
    /\ InEpochBody => Len(stats) = epoch
    /\ pc \in {"add_scalar", "epoch_loop"} => Len(stats) = epoch + 1
    /\ \A v \in 1..n_runs :
          /\ fs.csv_writes[v] <= 1
          /\ fs.csv_writes[v] = 0 => fs.csv[v] = <<>>
          /\ fs.csv_writes[v] = 1 => v <= seed + 1 /\ CsvIsTheRunsRecords(v - 1)
    /\ (seed >= 0 /\ fs.csv_writes[seed + 1] = 1) =>
          /\ pc \in {"run_loop", "exit"}
          /\ epoch = epochs - 1
          /\ scheduler.last_epoch = epochs
          /\ stats = fs.csv[seed + 1]
    /\ \A i \in 1..Len(StatKeys) : \A e \in 0..(epochs - 1) :
          /\ Cardinality(ScalarsAt(StatKeys[i], e)) <= 1
          /\ (pc \in {"epoch_loop", "run_loop", "exit"} /\ seed >= 0
                /\ log_writer.log_dir = seed + 1 /\ e < Len(stats)) =>
                \E j \in ScalarsAt(StatKeys[i], e) :
                    log_writer.scalars[j].value = stats[e + 1][StatKeys[i]]
    /\ pc \in {"epoch_loop", "run_loop", "exit"} =>
          Len(log_writer.scalars) = Len(StatKeys) * Len(stats)
             \/ log_writer.log_dir # seed + 1

\* C4's case: the script has ended, both files written, the rows of a file
\* differing from one another.
C4_Witness ==
    /\ pc = "exit"
    /\ \A v \in 1..n_runs : fs.csv_writes[v] = 1 /\ Len(fs.csv[v]) = epochs
    /\ fs.csv[1][1] # fs.csv[1][epochs]
    /\ Len(log_writer.scalars) = Len(StatKeys) * epochs

\* C5: the script starts its runs in the order seed 0, seed 1 and no more;
\* when a run's first epoch begins, stats and the writer's scalars are empty,
\* the weights are those of a network freshly built under the run's seed, the
\* optimizer has zero momentum and snapshots equal to those weights, the
\* learning rate is --lr and the scheduler has not stepped; and each run's
\* stats.csv and scalars hold records of that run's epochs only.
C5_FreshStatePerRun ==
    /\ Len(calls.runs) = seed + 1
    /\ Len(calls.runs) <= n_runs
    /\ \A i \in DOMAIN calls.runs : calls.runs[i] = i - 1
    /\ pc = "exit" => calls.runs = <<0, 1>>
    /\ (pc = "train_enter" /\ epoch = 0) =>
          /\ stats = <<>>
          /\ log_writer = [log_dir |-> seed + 1, scalars |-> <<>>]
          /\ RunRecords(seed) = <<>>
          /\ net.w = FreshWeights(seed)
          /\ optimizer.mom = [p \in Params |-> 0]
          /\ optimizer.base = net.w
          /\ optimizer.over = net.w
          /\ optimizer.lr = args.lr
          /\ \/ AllLive(optimizer, "NONE")
             \/ AllLive(optimizer, "BASE_LIVE")
             \/ AllLive(optimizer, "OVERSHOOT_LIVE")
          /\ scheduler = [base_lr |-> args.lr, T_max |-> epochs, last_epoch |-> 0]
    /\ \A v \in 1..n_runs : fs.csv_writes[v] = 1 => CsvIsTheRunsRecords(v - 1)
    /\ seed >= 0 =>
          \A i \in DOMAIN log_writer.scalars :
             LET x == log_writer.scalars[i] IN
                /\ x.step + 1 <= Len(RunRecords(log_writer.log_dir - 1))
                /\ x.value = RunRecords(log_writer.log_dir - 1)[x.step + 1].rec[x.key]

\* C5's case: the second run has written its file, which differs from the
\* first run's.
C5_Witness ==
    /\ pc = "exit"
    /\ seed = 1
    /\ fs.csv_writes[2] = 1
    /\ fs.csv[2] # fs.csv[1]
    /\ fs.csv[1] # <<>>

\* Sums over the batches a pass has accounted.
RECURSIVE SumLoss(_)
SumLoss(h) == IF h = <<>> THEN 0 ELSE h[1].loss + SumLoss(Tail(h))
RECURSIVE SumWeightedLoss(_)
SumWeightedLoss(h) ==
    IF h = <<>> THEN 0 ELSE h[1].loss * h[1].size + SumWeightedLoss(Tail(h))
RECURSIVE SumCorrect(_)
SumCorrect(h) == IF h = <<>> THEN 0 ELSE h[1].correct + SumCorrect(Tail(h))
RECURSIVE SumSize(_)
SumSize(h) == IF h = <<>> THEN 0 ELSE h[1].size + SumSize(Tail(h))
\* The sum of the batches' own accuracies 100 * correct / size, as a fraction.
RECURSIVE SumBatchAccuracy(_)
SumBatchAccuracy(h) ==
    IF h = <<>> THEN <<0, 1>>
    ELSE RatAdd(<<100 * h[1].correct, h[1].size>>, SumBatchAccuracy(Tail(h)))
\* The average over batches of the batches' accuracies.
BatchAverageAccuracy(h) ==
    <<SumBatchAccuracy(h)[1], SumBatchAccuracy(h)[2] * Len(h)>>

\* The batch sizes a pass has accounted.
SizesOf(h) == [i \in DOMAIN h |-> h[i].size]

\* C6: the loss train() returns, and the loss test() returns, is the sum of
\* the losses of the batches the loader yielded divided by their number,
\* whatever the batches' sizes.
C6_LossIsMeanOverBatches ==
    /\ pc = "test_enter" =>
          /\ SizesOf(hist) = loaders.train
          /\ Len(hist) > 0
          /\ RatEq(rets.train_loss, <<SumLoss(hist), Len(hist)>>)
    /\ pc = "scheduler_step" =>
          /\ SizesOf(hist) = loaders.test
          /\ Len(hist) > 0
          /\ RatEq(rets.val_loss, <<SumLoss(hist), Len(hist)>>)

\* C6's case: train() has returned after a full batch and a smaller last
\* batch with different losses, where the mean over samples is another value.
C6_Witness ==
    /\ pc = "test_enter"
    /\ Len(hist) = 2
    /\ hist[2].size < hist[1].size
    /\ hist[1].loss # hist[2].loss
    /\ ~RatEq(rets.train_loss, <<SumWeightedLoss(hist), SumSize(hist)>>)

\* C7 as stated: the accuracy train() and test() return is the average over
\* batches of the batches' accuracies, each batch weighing the same.
C7_AccuracyIsAverageOverBatches ==
    /\ pc = "test_enter" => RatEq(rets.train_acc, BatchAverageAccuracy(hist))
    /\ pc = "scheduler_step" => RatEq(rets.val_acc, BatchAverageAccuracy(hist))

\* C7 as amended: the accuracy train() and test() return is 100 times the
\* number of correct predictions of the whole pass divided by the number of
\* samples of the whole pass: every sample weighs the same.
C7_AccuracyIsCorrectOverSamples ==
    /\ pc = "test_enter" =>
          /\ SumSize(hist) = data.train_n
          /\ RatEq(rets.train_acc, <<100 * SumCorrect(hist), SumSize(hist)>>)
    /\ pc = "scheduler_step" =>
          /\ SumSize(hist) = data.test_n
          /\ RatEq(rets.val_acc, <<100 * SumCorrect(hist), SumSize(hist)>>)

\* C7's case: train() has returned an accuracy that is not the average of the
\* batches' accuracies, after batches of different sizes.
C7_Witness ==
    /\ pc = "test_enter"
    /\ Len(hist) = 2
    /\ hist[2].size < hist[1].size
    /\ ~RatEq(rets.train_acc, BatchAverageAccuracy(hist))

\* n copies of a sequence, one after the other.
RECURSIVE Rep(_, _)
Rep(seq, n) == IF n <= 0 THEN <<>> ELSE seq \o Rep(seq, n - 1)

\* Sequence a is a prefix of sequence b.
IsPrefix(a, b) == Len(a) <= Len(b) /\ SubSeq(b, 1, Len(a)) = a

\* The events of one epoch in the order the claim gives them: per training
\* batch zero_grad, forward, loss, backward, step; then the evaluation pass
\* (inside its two switches when the optimizer is SGDO); then one scheduler
\* step; then the append.
EpochOrder(kind, n_train, n_test) ==
    Rep(<<"zero_grad", "forward", "loss", "backward", "step">>, n_train)
    \o <<"train_return">>
    \o (IF kind = "SGDO" THEN <<"move_to_base">> ELSE <<>>)
    \o Rep(<<"eval_forward", "eval_loss">>, n_test)
    \o (IF kind = "SGDO" THEN <<"move_to_overshoot">> ELSE <<>>)
    \o <<"test_return", "scheduler_step", "append">>

\* C8: the events of an epoch occur in the fixed order: the whole training
\* pass with exactly one step per batch, the whole evaluation pass, one
\* scheduler step, the append. While an epoch's passes run the scheduler has
\* stepped once per earlier epoch; from its step on, once per epoch so far.
C8_EpochOrder ==
    /\ (InEpochBody \/ pc = "add_scalar" \/ (pc = "epoch_loop" /\ epoch >= 0)) =>
          IsPrefix(trace, EpochOrder(optimizer.kind, Len(loaders.train),
                                     Len(loaders.test)))
    /\ (pc = "add_scalar" \/ (pc = "epoch_loop" /\ epoch >= 0)) =>
          trace = EpochOrder(optimizer.kind, Len(loaders.train),
                             Len(loaders.test))
    /\ (InEpochBody /\ pc # "append") => scheduler.last_epoch = epoch
    /\ pc \in {"append", "add_scalar", "epoch_loop"} =>
          scheduler.last_epoch = epoch + 1
    /\ pc \in {"train_loop", "zero_grad"} =>
          Count(trace, "step") = Len(hist)

\* C8's case: the last epoch of the second run is complete, after two
\* training batches and two evaluation batches.
C8_Witness ==
    /\ pc = "epoch_loop"
    /\ seed = 1
    /\ epoch = epochs - 1
    /\ Count(trace, "step") = 2
    /\ Count(trace, "eval_forward") = 2
    /\ scheduler.last_epoch = epochs

\* C9: in a run with an SGDO optimizer, once the run's first step() is done,
\* every statement of a training pass (its forward passes and step() calls
\* among them) runs with every parameter OVERSHOOT_LIVE; the parameters are
\* BASE_LIVE only inside test()'s loop; stats.csv is written with every
\* parameter OVERSHOOT_LIVE; and the live state of the run's optimizer changes
\* only in test()'s move_to_base and move_to_overshoot.
C9_TrainingStaysOvershootLive ==
    /\ []((optimizer.kind = "SGDO" /\ calls.step >= 1) =>
            /\ AllLive(optimizer, "BASE_LIVE") \/ AllLive(optimizer, "OVERSHOOT_LIVE")
            /\ pc \in {"train_enter", "train_loop", "zero_grad", "forward",
                       "loss", "backward", "step", "train_account"} =>
                  AllLive(optimizer, "OVERSHOOT_LIVE") /\ net.w = optimizer.over
            /\ AllLive(optimizer, "BASE_LIVE") =>
                  pc \in {"test_loop", "eval_forward", "eval_loss"}
            /\ (pc \in {"run_loop", "exit"} /\ fs.csv_writes[seed + 1] = 1) =>
                  AllLive(optimizer, "OVERSHOOT_LIVE"))
    /\ [][(/\ optimizer.kind = "SGDO"
           /\ calls.step >= 1
           /\ pc # "optimizer"
           /\ optimizer'.live # optimizer.live)
          => \/ pc = "test_to_base" /\ pc' = "test_loop"
             \/ pc = "test_loop" /\ pc' = "test_return"]_vars

\* C9's case: the second SGDO run has written its stats.csv after several
\* steps and one switch back per epoch, every parameter OVERSHOOT_LIVE.
C9_Witness ==
    /\ optimizer.kind = "SGDO"
    /\ pc = "run_loop"
    /\ seed = 1
    /\ fs.csv_writes[2] = 1
    /\ calls.step >= 2
    /\ AllLive(optimizer, "OVERSHOOT_LIVE")
    /\ calls.move_to_overshoot = n_runs * epochs

\* C10: from test()'s entry to its return the base values, the overshoot
\* values, the momentum buffers, the learning rate and the gradients are
\* those of the entry, and no zero_grad, backward or step is added to the
\* epoch's events; when test() returns, the weights are again the weights of
\* the entry, which for an SGDO optimizer are the overshoot values.
C10_EvaluationLeavesOptimizerUntouched ==
    pc \in {"test_to_base", "test_loop", "eval_forward", "eval_loss",
            "test_return", "scheduler_step"} =>
        /\ optimizer.base = snap.optimizer.base
        /\ optimizer.over = snap.optimizer.over
        /\ optimizer.mom = snap.optimizer.mom
        /\ optimizer.lr = snap.optimizer.lr
        /\ net.grad = snap.grad
        /\ Count(trace, "zero_grad") = Len(loaders.train)
        /\ Count(trace, "backward") = Len(loaders.train)
        /\ Count(trace, "step") = Len(loaders.train)
        /\ pc \in {"test_return", "scheduler_step"} =>
              /\ net.w = snap.w
              /\ optimizer.live = snap.optimizer.live
              /\ optimizer.kind = "SGDO" =>
                    /\ AllLive(snap.optimizer, "OVERSHOOT_LIVE")
                    /\ net.w = snap.optimizer.over

\* C10's case: test() has returned in an SGDO run whose base and overshoot
\* values differ, after switching to base and back.
C10_Witness ==
    /\ optimizer.kind = "SGDO"
    /\ pc = "scheduler_step"
    /\ snap.optimizer.base # snap.optimizer.over
    /\ Count(trace, "move_to_base") = 1
    /\ Count(trace, "move_to_overshoot") = 1
    /\ net.w = snap.optimizer.over

====
